---------------------------- MODULE Spec2Model ----------------------------
(***************************************************************************)
(* RMR14 scoring and discontinuity-family identification of app.py.        *)
(*                                                                         *)
(* Spec      : identify_families as a step machine (one action per branch  *)
(*             of its two loops), called repeatedly by a caller.           *)
(*                                                                         *)
(* SpecApp      : the script run on a loaded data set: tab 1 scores every  *)
(*                station, tab 3 analyses every station's families.        *)
(* SpecFamilies : the same run on data sets large enough for two families. *)
(* SpecTables   : the rating functions applied to arguments of their own.  *)
(*                                                                         *)
(* Angles are whole degrees.  List indices are 0-based as in Python; the   *)
(* element with Python index k of a sequence s is s[k + 1].                *)
(***************************************************************************)
EXTENDS Integers, Sequences, FiniteSets

\* ------------------------------------------------------------------ bounds

\* Longest orientation list handed to identify_families.
MaxOrientations == 4

\* Largest min_members tried.
MaxMinMembers == 3

\* Dip directions the orientation lists are drawn from: two close angles, one
\* a little farther on, one far away, and one close only across the 0/360 wrap.
Angles == {10, 12, 26, 200, 356}

\* Tolerances tried: the default of the call sites (15) and a tight one.
Tolerances == {2, 15}

\* ------------------------------------------------------------------ helpers

RECURSIVE SumSeq(_)
SumSeq(s) == IF s = <<>> THEN 0 ELSE Head(s) + SumSeq(Tail(s))

\* The element of a set of one element. A value bound through such a set is
\* computed once, however often it is read.
Only(S) == CHOOSE v \in S : TRUE

SeqsUpTo(S, n) == UNION {[1..k -> S] : k \in 0..n}

Abs(x) == IF x < 0 THEN -x ELSE x

Min2(a, b) == IF a <= b THEN a ELSE b

Max2(a, b) == IF a >= b THEN a ELSE b

RECURSIVE GCD(_, _)
GCD(a, b) == IF b = 0 THEN a ELSE GCD(b, a % b)

\* ------------------------------------------------------------------ numbers
\* The exact quotient of two whole numbers (the sum of a column over its
\* length) is a fraction in lowest terms with a positive denominator.  The
\* floats computed from such quotients are doubles, further below.

Frac(num, den) ==
    LET g == GCD(Abs(num), den)
    IN  [num |-> num \div g, den |-> den \div g]

FracInt(k) == [num |-> k, den |-> 1]

FracLE(a, b) == a.num * b.den <= b.num * a.den

FracGE(a, b) == FracLE(b, a)

\* int(x) of a float x >= 0: the fraction is cut, not rounded
FracInt0(a) == a.num \div a.den

\* ------------------------------------------------ calculate_angular_distance

\* The difference taken without abs.
AngularDistanceSigned(dip_dir1, dip_dir2) ==
    LET diff == dip_dir1 - dip_dir2
    IN  Min2(diff, 360 - diff)

calculate_angular_distance(dip_dir1, dip_dir2) ==
    LET diff == Abs(dip_dir1 - dip_dir2)
    IN  Min2(diff, 360 - diff)

\* --------------------------------------------------------- identify_families

VARIABLES
    pc,              \* "idle" | "outer" | "inner" | "done"
    orientations,    \* argument
    tolerance,       \* argument
    min_members,     \* argument
    visited,         \* local: visited[k + 1] for index k
    families,        \* local, returned at "done"
    current_family,  \* local: the candidate group being built
    i,               \* outer loop index
    j,               \* inner loop index
    prev_result      \* an earlier call the caller remembers: its arguments,
                     \* what it returned, and whether a call on another list
                     \* ran since; NoResult when none is remembered

famVars == <<pc, orientations, tolerance, min_members, visited, families,
             current_family, i, j, prev_result>>

VARIABLES
    data,                  \* the loaded data frame
    app_pc,                \* "idle" | "loaded" | "tab3" | "done" | "error"
    rmr_results,           \* tab 1: one result per station
    station_idx,           \* tab 3: position in data['Station'].unique()
    all_families_results,  \* tab 3: one row per family
    all_families_rmr,      \* tab 3: the family_rmr behind each of these rows
    error                  \* the exception that ended the run, or "" for none

appVars == <<data, app_pc, rmr_results, station_idx, all_families_results,
             all_families_rmr, error>>

\* A rating table or band applied on its own to an argument.
VARIABLES
    tab_fn,    \* the function applied last, "" before any
    tab_arg,   \* its argument
    tab_ret,   \* what it returned
    tab_prev   \* argument and return of the application before it

tabVars == <<tab_fn, tab_arg, tab_ret, tab_prev>>

notFamVars == <<appVars, tabVars>>

NoResult ==
    [valid |-> FALSE, orientations |-> <<>>, tolerance |-> 0, min_members |-> 0,
     families |-> <<>>, apart |-> FALSE]

n == Len(orientations)

\* distances = [calculate_angular_distance(orientations[k], orientations[j])
\*              for k in current_family]
Distances(os, fam, jj) ==
    [p \in 1..Len(fam) |-> calculate_angular_distance(os[fam[p] + 1], os[jj + 1])]

\* The distance to the seed alone decides.
WithinToleranceOfSeed(os, fam, jj, tol) ==
    calculate_angular_distance(os[fam[1] + 1], os[jj + 1]) <= tol

\* The mean taken over the group with j already appended to it.
WithinToleranceCountingSelf(os, fam, jj, tol) ==
    SumSeq(Distances(os, fam, jj)) <= tol * (Len(fam) + 1)

\* avg_distance = np.mean(distances); avg_distance <= tolerance.  The distances
\* are whole numbers and the group is not empty, so the comparison of the
\* quotient is the comparison of the sum with tolerance * len.
WithinTolerance(os, fam, jj, tol) ==
    SumSeq(Distances(os, fam, jj)) <= tol * Len(fam)

\* The visited list left over from the previous call.
StaleVisited(len) ==
    IF Len(visited) = len THEN visited ELSE [k \in 1..len |-> FALSE]

\* visited = [False] * n
FreshVisited(len) == [k \in 1..len |-> FALSE]

\* The size test off by one.
QualifiesLoose(fam, m) == Len(fam) + 1 >= m

\* len(current_family) >= min_members
Qualifies(fam, m) == Len(fam) >= m

\* visited[i] = True
MarkSeed(v, k) == [v EXCEPT ![k + 1] = TRUE]

\* The joined index is not marked.
MarkMemberForgotten(v, k) == v

\* visited[j] = True
MarkMember(v, k) == [v EXCEPT ![k + 1] = TRUE]

FamInit ==
    /\ pc = "idle"
    /\ orientations = <<>>
    /\ tolerance = 15
    /\ min_members = 3
    /\ visited = <<>>
    /\ families = <<>>
    /\ current_family = <<>>
    /\ i = 0
    /\ j = 0
    /\ prev_result = NoResult

\* The call that has just returned, as the caller remembers it.
Returned ==
    [valid |-> TRUE, orientations |-> orientations, tolerance |-> tolerance,
     min_members |-> min_members, families |-> families, apart |-> FALSE]

\* What the caller remembers while identify_families(o, t, m) runs: the call
\* that has just returned when the new call repeats its arguments or takes
\* another list; the call remembered before when the new call repeats that
\* one's arguments, another call having run in between.
Remembered(o, t, m) ==
    IF pc # "done" THEN NoResult
    ELSE IF <<o, t, m>> = <<orientations, tolerance, min_members>> THEN Returned
    ELSE IF /\ prev_result.valid
            /\ <<o, t, m>> = <<prev_result.orientations, prev_result.tolerance,
                               prev_result.min_members>>
         THEN [prev_result EXCEPT !.apart = TRUE]
    ELSE IF o # orientations THEN Returned
    ELSE NoResult

\* identify_families(o, t, m) is entered; its locals are created.
Call(o, t, m) ==
    /\ pc \in {"idle", "done"}
    /\ prev_result' = Remembered(o, t, m)
    /\ orientations' = o
    /\ tolerance' = t
    /\ min_members' = m
    /\ visited' = FreshVisited(Len(o))
    /\ families' = <<>>
    /\ current_family' = <<>>
    /\ i' = 0
    /\ j' = 0
    /\ pc' = "outer"
    /\ UNCHANGED notFamVars

\* for i in range(n): if visited[i]: continue
OuterSkip ==
    /\ pc = "outer" /\ i < n /\ visited[i + 1]
    /\ i' = i + 1
    /\ UNCHANGED <<pc, orientations, tolerance, min_members, visited, families,
                   current_family, j, prev_result, notFamVars>>

\* current_family = [i]; visited[i] = True; the inner loop starts at i + 1
OuterSeed ==
    /\ pc = "outer" /\ i < n /\ ~visited[i + 1]
    /\ current_family' = <<i>>
    /\ visited' = MarkSeed(visited, i)
    /\ j' = i + 1
    /\ pc' = "inner"
    /\ UNCHANGED <<orientations, tolerance, min_members, families, i, prev_result, notFamVars>>

\* for j in range(i + 1, n): if visited[j]: continue
InnerSkip ==
    /\ pc = "inner" /\ j < n /\ visited[j + 1]
    /\ j' = j + 1
    /\ UNCHANGED <<pc, orientations, tolerance, min_members, visited, families,
                   current_family, i, prev_result, notFamVars>>

\* avg_distance <= tolerance: current_family.append(j); visited[j] = True
InnerJoin ==
    /\ pc = "inner" /\ j < n /\ ~visited[j + 1]
    /\ WithinTolerance(orientations, current_family, j, tolerance)
    /\ current_family' = Append(current_family, j)
    /\ visited' = MarkMember(visited, j)
    /\ j' = j + 1
    /\ UNCHANGED <<pc, orientations, tolerance, min_members, families, i, prev_result, notFamVars>>

\* avg_distance > tolerance: j is left unvisited
InnerReject ==
    /\ pc = "inner" /\ j < n /\ ~visited[j + 1]
    /\ ~WithinTolerance(orientations, current_family, j, tolerance)
    /\ j' = j + 1
    /\ UNCHANGED <<pc, orientations, tolerance, min_members, visited, families,
                   current_family, i, prev_result, notFamVars>>

\* the inner loop is over and len(current_family) >= min_members:
\* families.append(current_family)
Emit ==
    /\ pc = "inner" /\ j >= n
    /\ Qualifies(current_family, min_members)
    /\ families' = Append(families, current_family)
    /\ i' = i + 1
    /\ pc' = "outer"
    /\ UNCHANGED <<orientations, tolerance, min_members, visited, current_family,
                   j, prev_result, notFamVars>>

\* The dropped group's members are released: their marks are cleared.
DiscardReleasing ==
    /\ pc = "inner" /\ j >= n
    /\ ~Qualifies(current_family, min_members)
    /\ visited' = [k \in 1..n |->
                      visited[k] /\ ~(\E p \in 1..Len(current_family) : current_family[p] = k - 1)]
    /\ i' = i + 1
    /\ pc' = "outer"
    /\ UNCHANGED <<orientations, tolerance, min_members, families,
                   current_family, j, prev_result, notFamVars>>

\* the inner loop is over and the group is too small: it is dropped
Discard ==
    /\ pc = "inner" /\ j >= n
    /\ ~Qualifies(current_family, min_members)
    /\ i' = i + 1
    /\ pc' = "outer"
    /\ UNCHANGED <<orientations, tolerance, min_members, visited, families,
                   current_family, j, prev_result, notFamVars>>

\* return families
Return ==
    /\ pc = "outer" /\ i >= n
    /\ pc' = "done"
    /\ UNCHANGED <<orientations, tolerance, min_members, visited, families,
                   current_family, i, j, prev_result, notFamVars>>

\* The first call takes any orientation list.
FirstCall ==
    /\ pc = "idle"
    /\ \E o \in SeqsUpTo(Angles, MaxOrientations), t \in Tolerances,
          m \in 1..MaxMinMembers : Call(o, t, m)

\* A later call on the same list (as the family tab does for its polar chart
\* when the data hold one station), with any configuration.
Rerun ==
    /\ pc = "done"
    /\ \E t \in Tolerances, m \in 1..MaxMinMembers : Call(orientations, t, m)

\* The orientation lists of the stations that follow the first one.
StationLists == {<<10>>, <<200>>, <<10, 10, 10>>}

\* The family loop goes on to the next station: a call on another list, with
\* the same tolerance and min_members.
NextStation ==
    /\ pc = "done"
    /\ \E o \in StationLists \ {orientations} : Call(o, tolerance, min_members)

\* The polar chart takes up an earlier station: a call that repeats the
\* arguments of a call made before the last one.
Redraw ==
    /\ pc = "done"
    /\ prev_result.valid
    /\ prev_result.orientations # orientations
    /\ Call(prev_result.orientations, prev_result.tolerance, prev_result.min_members)

FamNext ==
    \/ FirstCall
    \/ Rerun
    \/ NextStation
    \/ Redraw
    \/ OuterSkip
    \/ OuterSeed
    \/ InnerSkip
    \/ InnerJoin
    \/ InnerReject
    \/ Emit
    \/ Discard
    \/ Return


\* identify_families as a function of its arguments: the two loops above, run
\* to their end.
RECURSIVE InnerScan(_, _, _, _, _)
InnerScan(os, fam, vis, jj, tol) ==
    IF jj >= Len(os) THEN <<fam, vis>>
    ELSE IF vis[jj + 1] THEN InnerScan(os, fam, vis, jj + 1, tol)
    ELSE IF WithinTolerance(os, fam, jj, tol)
         THEN InnerScan(os, Append(fam, jj), MarkMember(vis, jj), jj + 1, tol)
         ELSE InnerScan(os, fam, vis, jj + 1, tol)

RECURSIVE OuterScan(_, _, _, _, _, _)
OuterScan(os, vis, fams, ii, tol, m) ==
    IF ii >= Len(os) THEN fams
    ELSE IF vis[ii + 1] THEN OuterScan(os, vis, fams, ii + 1, tol, m)
    ELSE LET r == InnerScan(os, <<ii>>, MarkSeed(vis, ii), ii + 1, tol)
         IN  OuterScan(os, r[2],
                       IF Qualifies(r[1], m) THEN Append(fams, r[1]) ELSE fams,
                       ii + 1, tol, m)

identify_families(os, tol, m) ==
    OuterScan(os, FreshVisited(Len(os)), <<>>, 0, tol, m)

\* ------------------------------------------------------------ rating tables
\* Lengths are whole centimetres (Distance_m in steps of 0.01 m).  RQD is a
\* whole number of 1/10000 percent, cut: 100 percent is 100 * RqdUnit, and
\* rqd >= 90 in the code is rqd >= 90 * RqdUnit here.

RqdUnit == 10000

\* A real is kept to 56 binary places as five limbs <<a0, a1, a2, a3, a4>>:
\* a0 + a1/Limb + a2/Limb^2 + a3/Limb^3 + a4/Limb^4, with a0 any whole
\* number and a1..a4 in 0..Limb-1, so that a0 is the floor of the real.
\* Every double of magnitude between 1/16 and 1024 is such a real.
Limb == 16384

FixInt(k) == <<k, 0, 0, 0, 0>>

FixZero == FixInt(0)

FixOne == FixInt(1)

\* a + b, exact
FixAdd(a, b) ==
    LET e4 == a[5] + b[5]
        e3 == a[4] + b[4] + e4 \div Limb
        e2 == a[3] + b[3] + e3 \div Limb
        e1 == a[2] + b[2] + e2 \div Limb
        e0 == a[1] + b[1] + e1 \div Limb
    IN  <<e0, e1 % Limb, e2 % Limb, e3 % Limb, e4 % Limb>>

\* a * k for a whole k >= 0, exact
FixMulInt(a, k) ==
    LET c4 == a[5] * k
        c3 == a[4] * k + c4 \div Limb
        c2 == a[3] * k + c3 \div Limb
        c1 == a[2] * k + c2 \div Limb
        c0 == a[1] * k + c1 \div Limb
    IN  <<c0, c1 % Limb, c2 % Limb, c3 % Limb, c4 % Limb>>

\* a / k for a whole k > 0, cut to 56 binary places
FixDivInt(a, k) ==
    LET t1 == (a[1] % k) * Limb + a[2]
        t2 == (t1 % k) * Limb + a[3]
        t3 == (t2 % k) * Limb + a[4]
        t4 == (t3 % k) * Limb + a[5]
    IN  <<a[1] \div k, t1 \div k, t2 \div k, t3 \div k, t4 \div k>>

\* what FixDivInt(a, k) cuts off, in k-ths of the last place
FixRem(a, k) ==
    LET t1 == (a[1] % k) * Limb + a[2]
        t2 == (t1 % k) * Limb + a[3]
        t3 == (t2 % k) * Limb + a[4]
        t4 == (t3 % k) * Limb + a[5]
    IN  t4 % k

\* a - b, exact
FixSub(a, b) ==
    LET e4 == a[5] - b[5]
        e3 == a[4] - b[4] + e4 \div Limb
        e2 == a[3] - b[3] + e3 \div Limb
        e1 == a[2] - b[2] + e2 \div Limb
        e0 == a[1] - b[1] + e1 \div Limb
    IN  <<e0, e1 % Limb, e2 % Limb, e3 % Limb, e4 % Limb>>

\* a * b for 0 <= a, b <= 1, cut to 56 binary places
FixMul(a, b) ==
    LET c8 == a[5] * b[5]
        c7 == a[4] * b[5] + a[5] * b[4] + c8 \div Limb
        c6 == a[3] * b[5] + a[4] * b[4] + a[5] * b[3] + c7 \div Limb
        c5 == a[2] * b[5] + a[3] * b[4] + a[4] * b[3] + a[5] * b[2] + c6 \div Limb
        c4 == a[1] * b[5] + a[2] * b[4] + a[3] * b[3] + a[4] * b[2] + a[5] * b[1]
                  + c5 \div Limb
        c3 == a[1] * b[4] + a[2] * b[3] + a[3] * b[2] + a[4] * b[1] + c4 \div Limb
        c2 == a[1] * b[3] + a[2] * b[2] + a[3] * b[1] + c3 \div Limb
        c1 == a[1] * b[2] + a[2] * b[1] + c2 \div Limb
        c0 == a[1] * b[1] + c1 \div Limb
    IN  <<c0, c1 % Limb, c2 % Limb, c3 % Limb, c4 % Limb>>

\* floor(a * unit) for a whole unit > 0
FixFloor(a, unit) == FixMulInt(a, unit)[1]

\* The spacing of the doubles around a real whose first two limbs make top,
\* in units of the last place: a double keeps 53 binary digits.
RECURSIVE Granule(_)
Granule(top) == IF top < 2048 THEN 1 ELSE 2 * Granule(top \div 2)

\* The double nearest to a / k for a >= 0 and a whole k > 0, a tie going to
\* the even neighbour: q is a / k cut to 56 binary places and r what the cut
\* left, in k-ths of the last place.
FloatRound(q, r, k) ==
    LET g == Granule(q[1] * Limb + q[2])
        lo == q[5] % g
        twice == 2 * (lo * k + r)
        down == <<q[1], q[2], q[3], q[4], q[5] - lo>>
    IN  IF twice > g * k \/ (twice = g * k /\ (q[5] \div g) % 2 = 1)
        THEN FixAdd(down, <<0, 0, 0, 0, g>>)
        ELSE down

\* The double nearest to a / k for a >= 0 and a whole k > 0
FloatDivMag(a, k) == FloatRound(FixDivInt(a, k), FixRem(a, k), k)

\* |a|
FloatAbs(a) == IF a[1] < 0 THEN FixSub(FixZero, a) ELSE a

\* m with the sign of a, for m >= 0
FloatSigned(a, m) == IF a[1] < 0 THEN FixSub(FixZero, m) ELSE m

\* The double nearest to a / k, for a quotient that is zero or of magnitude
\* 1/16 to 1024: the result of one float operation whose exact result is
\* a / k. A negative a is rounded as |a| is.
FloatDiv(a, k) == FloatSigned(a, FloatDivMag(FloatAbs(a), k))

\* a + b of two doubles, as a double
FloatAdd(a, b) == FloatDiv(FixAdd(a, b), 1)

\* a - b of two doubles, as a double
FloatSub(a, b) == FloatDiv(FixSub(a, b), 1)

\* a * (p / q) of a double a and the double p / q of two small whole
\* numbers p >= 0 and q > 0
FloatScale(a, p, q) == FloatSigned(a, FloatDivMag(FixMulInt(FloatAbs(a), p), q))

\* the float of the fraction f
FloatOfFrac(f) == FloatDiv(FixInt(f.num), f.den)

\* a >= k for a double a and a whole k
FloatGE(a, k) == a[1] >= k

\* min(k, a) for a double a and a whole k
FloatMin(k, a) == IF FloatGE(a, k) THEN FixInt(k) ELSE a

\* max(k, a) for a double a and a whole k
FloatMax(k, a) == IF FloatGE(a, k) THEN a ELSE FixInt(k)

\* a > k for a double a and a whole k
FloatGT(a, k) == a[1] >= k /\ a # FixInt(k)

\* d doubled until p / d < 1
RECURSIVE ExpScale(_, _)
ExpScale(p, d) == IF p < d THEN d ELSE ExpScale(p, 2 * d)

\* The series of e^(-p/d), 0 <= p < d: term k + 1 is term k times (p/d) / (k + 1),
\* the terms are added and subtracted in turn, until a term is zero to 56
\* binary places.
RECURSIVE ExpNegSeries(_, _, _, _, _)
ExpNegSeries(t, k, sum, p, d) ==
    IF t = FixZero THEN sum
    ELSE ExpNegSeries(FixDivInt(FixDivInt(FixMulInt(t, p), d), k + 1), k + 1,
                      IF k % 2 = 0 THEN FixAdd(sum, t) ELSE FixSub(sum, t), p, d)

\* e squared once for every doubling that led from d to scaled
RECURSIVE ExpNegSquared(_, _, _)
ExpNegSquared(e, scaled, d) ==
    IF scaled = d THEN e ELSE ExpNegSquared(FixMul(e, e), scaled \div 2, d)

\* exp(-p/d) for whole p >= 0 and d > 0, to 56 binary places:
\* exp(-x) = exp(-x / 2^s)^(2^s), the inner exponent below 1
ExpNeg(p, d) ==
    ExpNegSquared(ExpNegSeries(FixOne, 0, FixZero, p, ExpScale(p, d)), ExpScale(p, d), d)

\* The length test dropped: the division is attempted whatever the length.
calculate_rqd_unguarded(num_discontinuities, total_length_cm) ==
    LET p == 10 * num_discontinuities
        d == Max2(total_length_cm, 1)
    IN  Max2(0, Min2(100 * RqdUnit,
                     FixFloor(FixMulInt(FixDivInt(FixMulInt(ExpNeg(p, d), d + p), d), 100),
                              RqdUnit)))

\* lambda_freq = num_discontinuities / total_length_m, so
\* 0.1 * lambda_freq = x = 10 * num_discontinuities / total_length_cm, and
\* 100 * exp(-x) * (x + 1) is 100 * exp(-x) * (total_length_cm + p) /
\* total_length_cm with p = 10 * num_discontinuities.
calculate_rqd_from_frequency(num_discontinuities, total_length_cm) ==
    IF total_length_cm <= 0 THEN 0
    ELSE LET p == 10 * num_discontinuities
             d == total_length_cm
         IN  Max2(0, Min2(100 * RqdUnit,
                          FixFloor(FixMulInt(FixDivInt(FixMulInt(ExpNeg(p, d), d + p), d), 100),
                                   RqdUnit)))

\* The bands with their lower edges left out.
RqdRatingEdgesExcluded(rqd) ==
    IF rqd > 90 * RqdUnit THEN 20
    ELSE IF rqd > 75 * RqdUnit THEN 17
    ELSE IF rqd > 50 * RqdUnit THEN 13
    ELSE IF rqd > 25 * RqdUnit THEN 8
    ELSE 3

get_rqd_rating(rqd) ==
    IF rqd >= 90 * RqdUnit THEN 20
    ELSE IF rqd >= 75 * RqdUnit THEN 17
    ELSE IF rqd >= 50 * RqdUnit THEN 13
    ELSE IF rqd >= 25 * RqdUnit THEN 8
    ELSE 3

get_spacing_rating(spacing_mm) ==
    IF FracGE(spacing_mm, FracInt(2000)) THEN 20
    ELSE IF FracGE(spacing_mm, FracInt(600)) THEN 15
    ELSE IF FracGE(spacing_mm, FracInt(200)) THEN 10
    ELSE IF FracGE(spacing_mm, FracInt(60)) THEN 8
    ELSE 5

\* The rating capped at 30 only: min(30, total_rating).
ConditionRatingNoFloor(aperture_code, roughness_code, weathering_code, infilling_code) ==
    LET total_rating ==
            FloatSub(FloatSub(FloatSub(FloatSub(FixInt(30),
                FloatScale(FloatSub(FloatOfFrac(aperture_code), FixOne), 2, 1)),
                FloatScale(FloatSub(FloatOfFrac(roughness_code), FixOne), 3, 2)),
                FloatScale(FloatSub(FloatOfFrac(weathering_code), FixOne), 3, 1)),
                FixInt(IF FracLE(infilling_code, FracInt(2)) THEN 0
                       ELSE IF infilling_code = FracInt(3) THEN 5 ELSE 3))
    IN  FloatMin(30, total_rating)

\* The four codes are the exact means of their columns; the code receives
\* their floats and computes in floats, one rounding for every operation.
get_discontinuity_condition_rating(aperture_code, roughness_code, weathering_code, infilling_code) ==
    LET base_rating == FixInt(30)
        aperture_penalty == FloatScale(FloatSub(FloatOfFrac(aperture_code), FixOne), 2, 1)
        roughness_penalty == FloatScale(FloatSub(FloatOfFrac(roughness_code), FixOne), 3, 2)
        weathering_penalty == FloatScale(FloatSub(FloatOfFrac(weathering_code), FixOne), 3, 1)
        infilling_penalty ==
            IF FracLE(infilling_code, FracInt(2)) THEN FixInt(0)
            ELSE IF infilling_code = FracInt(3) THEN FixInt(5)
            ELSE FixInt(3)
        total_rating ==
            FloatSub(FloatSub(FloatSub(FloatSub(base_rating, aperture_penalty),
                                       roughness_penalty),
                              weathering_penalty),
                     infilling_penalty)
    IN  FloatMax(0, FloatMin(30, total_rating))

\* ratings.get(groundwater_code, 0): the default of the worst code.
GroundwaterRatingDefaultZero(groundwater_code) ==
    CASE groundwater_code = 1 -> 15
      [] groundwater_code = 2 -> 10
      [] groundwater_code = 3 -> 7
      [] groundwater_code = 4 -> 4
      [] OTHER -> 0

get_groundwater_rating(groundwater_code) ==
    CASE groundwater_code = 1 -> 15
      [] groundwater_code = 2 -> 10
      [] groundwater_code = 3 -> 7
      [] groundwater_code = 4 -> 4
      [] groundwater_code = 5 -> 0
      [] OTHER -> 7

\* spacing_conversion = {1: 10, 2: 40, 3: 130, 4: 400, 5: 800}
spacing_conversion == <<10, 40, 130, 400, 800>>

\* ------------------------------------------------------------- data frames
\* A data frame is a sequence of rows; a row is a record whose fields are the
\* columns.  A missing orientation (NaN) is the value NaN.

NaN == -1

RequiredFields ==
    {"Station", "Distance_m", "Dip_Direction_degrees", "Spacing_mm", "Aperture_mm",
     "Roughness", "Weathering", "Infilling_Type", "Groundwater"}

Columns(df) == IF df = <<>> THEN {} ELSE DOMAIN df[1]

Column(df, f) == [k \in 1..Len(df) |-> df[k][f]]

RECURSIVE MaxSeq(_)
MaxSeq(s) == IF Len(s) = 1 THEN s[1] ELSE Max2(Head(s), MaxSeq(Tail(s)))

\* df[col].mean()
Mean(df, f) == Frac(SumSeq(Column(df, f)), Len(df))

\* data['Station'].unique(): the stations in order of first appearance
RECURSIVE Unique(_)
Unique(s) ==
    IF s = <<>> THEN <<>>
    ELSE LET front == Unique(SubSeq(s, 1, Len(s) - 1))
             last == s[Len(s)]
         IN  IF \E k \in 1..Len(front) : front[k] = last THEN front
             ELSE Append(front, last)

\* data[data['Station'] == station]
StationRows(df, station) ==
    LET Same(row) == row.Station = station IN SelectSeq(df, Same)

\* No row is dropped: the null orientations stay in the list.
DropNaKeepsAll(df) == df

\* df.dropna(subset=['Dip_Direction_degrees'])
DropNa(df) ==
    LET HasDip(row) == row.Dip_Direction_degrees # NaN IN SelectSeq(df, HasDip)

\* df.iloc[indices], the indices 0-based
ILoc(df, indices) == [p \in 1..Len(indices) |-> df[indices[p] + 1]]

\* floor of the square root
ISqrt(x) == CHOOSE r \in 0..360 : r * r <= x /\ x < (r + 1) * (r + 1)

\* df[col].std(), cut to whole degrees; NaN for a single row
StdDegrees(df, f) ==
    LET len == Len(df)
        sum == SumSeq(Column(df, f))
        squares == SumSeq([k \in 1..len |-> df[k][f] * df[k][f]])
    IN  IF len < 2 THEN NaN
        ELSE ISqrt((len * squares - sum * sum) \div (len * (len - 1)))

\* ----------------------------------------------------- calculate_station_rmr

\* The bands with their lower edges left out.
ClassificationEdgesExcluded(rmr_total) ==
    IF FloatGT(rmr_total, 81) THEN "Clase I - Muy buena"
    ELSE IF FloatGT(rmr_total, 61) THEN "Clase II - Buena"
    ELSE IF FloatGT(rmr_total, 41) THEN "Clase III - Regular"
    ELSE IF FloatGT(rmr_total, 21) THEN "Clase IV - Mala"
    ELSE "Clase V - Muy mala"

\* The bands of the final classification.
Classification(rmr_total) ==
    IF FloatGE(rmr_total, 81) THEN "Clase I - Muy buena"
    ELSE IF FloatGE(rmr_total, 61) THEN "Clase II - Buena"
    ELSE IF FloatGE(rmr_total, 41) THEN "Clase III - Regular"
    ELSE IF FloatGE(rmr_total, 21) THEN "Clase IV - Mala"
    ELSE "Clase V - Muy mala"

\* The mean code rounded to the nearest whole code.
RoundedCode(mean) == (2 * mean.num + mean.den) \div (2 * mean.den)

\* int(df['Groundwater'].mean())
TruncatedCode(mean) == FracInt0(mean)

\* The millimetre values summed, not averaged.
MeanSpacingRealSummed(df) ==
    Frac(SumSeq([k \in 1..Len(df) |-> spacing_conversion[df[k].Spacing_mm]]), 1)

\* df_station['Spacing_mm'].map(spacing_conversion).mean()
MeanSpacingReal(df) ==
    Frac(SumSeq([k \in 1..Len(df) |-> spacing_conversion[df[k].Spacing_mm]]), Len(df))

\* The sum without the orientation adjustment.
RmrTotalNoOrientation(rating_strength, rating_rqd, rating_spacing, rating_conditions, rating_groundwater, orientation_adjustment) ==
    FloatAdd(FloatAdd(FixInt(rating_strength + rating_rqd + rating_spacing),
                      rating_conditions),
             FixInt(rating_groundwater))

\* rmr_total = (rating_strength + rating_rqd + rating_spacing +
\*              rating_conditions + rating_groundwater + orientation_adjustment),
\* added from left to right: the whole ratings first, then the float
RmrTotal(rating_strength, rating_rqd, rating_spacing, rating_conditions, rating_groundwater, orientation_adjustment) ==
    FloatAdd(FloatAdd(FloatAdd(FixInt(rating_strength + rating_rqd + rating_spacing),
                               rating_conditions),
                      FixInt(rating_groundwater)),
             FixInt(orientation_adjustment))

\* The body of calculate_station_rmr from the conversions on, for the rows
\* df_station, their number and the length total_length.
StationSteps(station, df_station, total_length) ==
    LET num_discontinuities == Len(df_station)
        rqd == calculate_rqd_from_frequency(num_discontinuities, total_length)
        spacing_avg == MeanSpacingReal(df_station)
        rating_strength == 7
        rating_rqd == get_rqd_rating(rqd)
        rating_spacing == get_spacing_rating(spacing_avg)
        rating_conditions ==
            get_discontinuity_condition_rating(
                Mean(df_station, "Aperture_mm"), Mean(df_station, "Roughness"),
                Mean(df_station, "Weathering"), Mean(df_station, "Infilling_Type"))
        rating_groundwater ==
            get_groundwater_rating(TruncatedCode(Mean(df_station, "Groundwater")))
        orientation_adjustment == -5
        rmr_total ==
            RmrTotal(rating_strength, rating_rqd, rating_spacing, rating_conditions,
                     rating_groundwater, orientation_adjustment)
    IN  [Station |-> station,
         RMR_Total |-> rmr_total,
         Classification |-> Classification(rmr_total),
         RQD |-> rqd,
         Spacing_mm |-> spacing_avg,
         Num_Discontinuities |-> num_discontinuities,
         Total_Length |-> total_length,
         Ratings |-> [Strength |-> rating_strength,
                      RQD |-> rating_rqd,
                      Spacing |-> rating_spacing,
                      Conditions |-> rating_conditions,
                      Groundwater |-> rating_groundwater,
                      Orientation |-> orientation_adjustment]]

calculate_station_rmr(df, station) ==
    LET df_station == StationRows(df, station)
    IN  StationSteps(station, df_station, MaxSeq(Column(df_station, "Distance_m")))

\* ------------------------------------------------------------ family scoring

\* analyze_family_properties reads the column Persistence_m; without it the
\* lookup raises KeyError.
AnalysisRaises(df_family) == "Persistence_m" \notin Columns(df_family)

analyze_family_properties(df_family) ==
    [Count |-> Len(df_family),
     Dip_Direction_mean |-> Mean(df_family, "Dip_Direction_degrees"),
     Dip_Direction_std |-> StdDegrees(df_family, "Dip_Direction_degrees"),
     Spacing_code_mean |-> Mean(df_family, "Spacing_mm"),
     Persistence_code_mean |-> Mean(df_family, "Persistence_m"),
     Aperture_code_mean |-> Mean(df_family, "Aperture_mm"),
     Roughness_code_mean |-> Mean(df_family, "Roughness"),
     Weathering_code_mean |-> Mean(df_family, "Weathering"),
     Infilling_code_mean |-> Mean(df_family, "Infilling_Type"),
     Groundwater_code_mean |-> Mean(df_family, "Groundwater")]

\* spacing_conversion.get(int(family_properties['Spacing_code_mean']), 130)
FamilySpacingMm(spacing_code_mean) ==
    LET code == FracInt0(spacing_code_mean)
    IN  IF code \in 1..5 THEN spacing_conversion[code] ELSE 130

\* rmr_total of calculate_family_rmr: the same sum of six
FamilyRmrTotal(rating_strength, rating_rqd, rating_spacing, rating_conditions, rating_groundwater, orientation_adjustment) ==
    FloatAdd(FloatAdd(FloatAdd(FixInt(rating_strength + rating_rqd + rating_spacing),
                               rating_conditions),
                      FixInt(rating_groundwater)),
             FixInt(orientation_adjustment))

\* calculate_rqd_from_frequency(family_properties['Count'], station_length)
FamilyRqd(family_properties, station_length) ==
    calculate_rqd_from_frequency(family_properties.Count, station_length)

calculate_family_rmr(family_properties, station_length) ==
    LET rating_strength == 7
        family_rqd == FamilyRqd(family_properties, station_length)
        rating_rqd == get_rqd_rating(family_rqd)
        spacing_mm == FamilySpacingMm(family_properties.Spacing_code_mean)
        rating_spacing == get_spacing_rating(FracInt(spacing_mm))
        rating_conditions ==
            get_discontinuity_condition_rating(
                family_properties.Aperture_code_mean,
                family_properties.Roughness_code_mean,
                family_properties.Weathering_code_mean,
                family_properties.Infilling_code_mean)
        rating_groundwater ==
            get_groundwater_rating(TruncatedCode(family_properties.Groundwater_code_mean))
        orientation_adjustment == -5
        rmr_total ==
            FamilyRmrTotal(rating_strength, rating_rqd, rating_spacing,
                           rating_conditions, rating_groundwater, orientation_adjustment)
    IN  [RMR_total |-> rmr_total,
         RQD_family |-> family_rqd,
         Spacing_mm |-> spacing_mm,
         ratings |-> [strength |-> rating_strength,
                      rqd |-> rating_rqd,
                      spacing |-> rating_spacing,
                      conditions |-> rating_conditions,
                      groundwater |-> rating_groundwater]]

\* ------------------------------------------------------------------ the app
\* One run of the script on a loaded data set: tab 1 scores every station,
\* then tab 3 analyses the families of every station in turn.

\* Most rows a data set holds.
MaxRecords == 4

notAppVars == <<famVars, tabVars>>

Row(st, dist, dip, sp, ap, ro, we, inf, gw) ==
    [Station |-> st, Distance_m |-> dist, Dip_Direction_degrees |-> dip,
     Spacing_mm |-> sp, Aperture_mm |-> ap, Roughness |-> ro, Weathering |-> we,
     Infilling_Type |-> inf, Groundwater |-> gw]

\* The rows data sets are made of.  Distances are centimetres.
\*   BaseRow   10 m along the traverse, dipping towards 10, every code 1
\*   WideRow   as BaseRow with the widest spacing code
\*   DampRow   as BaseRow with spacing code 2 and groundwater code 2
\*   WorstRow  at the start of the traverse, the worst condition codes
\*   MidRow    15 cm along, middling codes
\*   BlindRow  no orientation, 20 m along, spacing 5, groundwater 5
\*   FarRow    as BaseRow but dipping towards 200
\*   OtherRow  a row of station 2
BaseRow == Row(1, 1000, 10, 1, 1, 1, 1, 1, 1)

WideRow == Row(1, 1000, 10, 5, 1, 1, 1, 1, 1)

DampRow == Row(1, 1000, 10, 2, 1, 1, 1, 1, 2)

WorstRow == Row(1, 0, 12, 1, 5, 5, 5, 3, 5)

MidRow == Row(1, 15, 10, 4, 3, 4, 1, 4, 3)

BlindRow == Row(1, 2000, NaN, 5, 1, 1, 1, 1, 5)

FarRow == Row(1, 1000, 200, 1, 1, 1, 1, 1, 1)

OtherRow == Row(2, 500, 10, 1, 1, 1, 1, 1, 1)

RowPool ==
    {BaseRow, WideRow, DampRow, WorstRow, MidRow, BlindRow, FarRow, OtherRow}

\* The persistence code given to every row of a data set that has the column.
PersistenceCode == 3

\* The row with the column Persistence_m added.
WithPersistence(row) ==
    [f \in DOMAIN row \cup {"Persistence_m"} |->
        IF f = "Persistence_m" THEN PersistenceCode ELSE row[f]]

\* Five rows of one station whose mean aperture, roughness and weathering
\* codes are 1.8, 4.2 and 4.2, and whose ratings add up to the edge 21.
EdgeStation ==
    <<Row(1, 10, 10, 1, 2, 5, 5, 4, 5), Row(1, 10, 10, 1, 2, 4, 4, 4, 5),
      Row(1, 10, 10, 1, 2, 4, 4, 4, 5), Row(1, 10, 10, 1, 2, 4, 4, 4, 5),
      Row(1, 10, 10, 1, 1, 4, 4, 4, 5)>>

\* The data sets without the column Persistence_m: up to MaxRecords rows of
\* RowPool, and the five rows of EdgeStation.
PlainDataSets == (UNION {[1..k -> RowPool] : k \in 1..MaxRecords}) \cup {EdgeStation}

AppIdle ==
    /\ data = <<>>
    /\ app_pc = "idle"
    /\ rmr_results = <<>>
    /\ station_idx = 0
    /\ all_families_results = <<>>
    /\ all_families_rmr = <<>>
    /\ error = ""

\* data = load_default_data() or pd.read_csv(uploaded_file)
AppInit ==
    /\ \E df \in PlainDataSets, persistence \in BOOLEAN :
          data = IF persistence THEN [k \in 1..Len(df) |-> WithPersistence(df[k])]
                 ELSE df
    /\ app_pc = "loaded"
    /\ rmr_results = <<>>
    /\ station_idx = 0
    /\ all_families_results = <<>>
    /\ all_families_rmr = <<>>
    /\ error = ""

Stations == Unique(Column(data, "Station"))

\* tab 1: for station in data['Station'].unique():
\*            rmr_results.append(calculate_station_rmr(data, station))
Tab1 ==
    /\ app_pc = "loaded"
    /\ rmr_results' = [s \in 1..Len(Stations) |-> calculate_station_rmr(data, Stations[s])]
    /\ app_pc' = "tab3"
    /\ UNCHANGED <<data, station_idx, all_families_results, all_families_rmr, error, notAppVars>>

\* What one pass of the tab 3 loop works on.
DfStation(station) == StationRows(data, station)

DfValid(station) == DropNa(DfStation(station))

StationFamilies(station) ==
    identify_families(Column(DfValid(station), "Dip_Direction_degrees"), 15, 3)

StationLength(station) == MaxSeq(Column(DfStation(station), "Distance_m"))

\* The label of the family at position family_idx of enumerate(families, 1).
FamilyLabelFromZero(family_idx) == <<"F", family_idx - 1>>

\* f'F{family_idx}'
FamilyLabel(family_idx) == <<"F", family_idx>>

\* The body of the loop over enumerate(families, 1) for the family at
\* position family_idx: the family_rmr and the family_result it builds.
FamilyPass(station, df_valid, families_here, station_length, family_idx) ==
    LET df_family == ILoc(df_valid, families_here[family_idx])
    IN  Only({Only({[family_rmr |-> family_rmr,
                     family_result |->
                        [Station |-> station,
                         Family |-> FamilyLabel(family_idx),
                         Count |-> family_properties.Count,
                         Dip_Direction_mean |-> family_properties.Dip_Direction_mean,
                         Dip_Direction_std |-> family_properties.Dip_Direction_std,
                         RMR_total |-> family_rmr.RMR_total,
                         RQD_family |-> family_rmr.RQD_family,
                         Spacing_mm |-> family_rmr.Spacing_mm]] :
                    family_rmr \in {calculate_family_rmr(family_properties, station_length)}}) :
              family_properties \in {analyze_family_properties(df_family)}})

\* tab 3, a station without a valid orientation: if len(df_valid) == 0: continue
FamilyStationSkip ==
    /\ app_pc = "tab3" /\ station_idx < Len(Stations)
    /\ Len(DfValid(Stations[station_idx + 1])) = 0
    /\ station_idx' = station_idx + 1
    /\ UNCHANGED <<data, app_pc, rmr_results, all_families_results, all_families_rmr, error, notAppVars>>

\* tab 3, a station whose families are all analysed and scored (there may be
\* none): one family_result is appended per family
FamilyStationAnalyze ==
    LET station == Stations[station_idx + 1]
        df_valid == DfValid(station)
        families_here == StationFamilies(station)
        station_length == StationLength(station)
    IN  /\ app_pc = "tab3" /\ station_idx < Len(Stations)
        /\ Len(df_valid) > 0
        /\ families_here = <<>> \/ ~AnalysisRaises(df_valid)
        /\ \E passes \in {[f \in 1..Len(families_here) |->
                             FamilyPass(station, df_valid, families_here, station_length, f)]} :
              /\ all_families_results' =
                     all_families_results
                         \o [f \in 1..Len(passes) |-> passes[f].family_result]
              /\ all_families_rmr' =
                     all_families_rmr \o [f \in 1..Len(passes) |-> passes[f].family_rmr]
        /\ station_idx' = station_idx + 1
        /\ UNCHANGED <<data, app_pc, rmr_results, error, notAppVars>>

\* tab 3, a station with a family in a data set without the column
\* Persistence_m: analyze_family_properties raises on the first family and
\* the run ends
FamilyStationKeyError ==
    LET station == Stations[station_idx + 1]
    IN  /\ app_pc = "tab3" /\ station_idx < Len(Stations)
        /\ Len(DfValid(station)) > 0
        /\ StationFamilies(station) # <<>>
        /\ AnalysisRaises(DfValid(station))
        /\ app_pc' = "error"
        /\ error' = "KeyError: 'Persistence_m'"
        /\ UNCHANGED <<data, rmr_results, station_idx, all_families_results,
                       all_families_rmr, notAppVars>>

\* df_families = pd.DataFrame(all_families_results): the loop is over
Tab3Done ==
    /\ app_pc = "tab3" /\ station_idx >= Len(Stations)
    /\ app_pc' = "done"
    /\ UNCHANGED <<data, rmr_results, station_idx, all_families_results,
                   all_families_rmr, error, notAppVars>>

AppNext ==
    \/ Tab1
    \/ FamilyStationSkip
    \/ FamilyStationAnalyze
    \/ FamilyStationKeyError
    \/ Tab3Done

\* ------------------------------------------------------- tables on their own

\* Largest total handed to the classification bands.
MaxTotal == 100

NoApplication == [valid |-> FALSE, arg |-> 0, ret |-> 0]

TabIdle ==
    /\ tab_fn = ""
    /\ tab_arg = 0
    /\ tab_ret = 0
    /\ tab_prev = NoApplication

\* A function is applied to one argument and then, for comparison, to a
\* second one.
Apply(fn, arg, ret) ==
    /\ tab_fn \in {"", fn}
    /\ ~tab_prev.valid
    /\ tab_prev' = IF tab_fn = fn THEN [valid |-> TRUE, arg |-> tab_arg, ret |-> tab_ret]
                   ELSE NoApplication
    /\ tab_fn' = fn
    /\ tab_arg' = arg
    /\ tab_ret' = ret

\* A function is applied to one argument.
ApplyOnce(fn, arg, ret) ==
    /\ tab_fn = ""
    /\ tab_prev' = NoApplication
    /\ tab_fn' = fn
    /\ tab_arg' = arg
    /\ tab_ret' = ret

\* The largest double below the whole number e > 1.
BelowEdge(e) == FixSub(FixInt(e), <<0, 0, 0, 0, Granule((e - 1) * Limb)>>)

\* Totals: the whole and the half numbers, and the last double below every
\* band edge.
Totals ==
    {FloatDiv(FixInt(k), 2) : k \in 0..(2 * MaxTotal)}
        \cup {BelowEdge(e) : e \in {21, 41, 61, 81}}

\* The classification of calculate_station_rmr applied to a total.
Classify ==
    /\ tab_fn \in {"", "Classification"}
    /\ \E total \in Totals : Apply("Classification", total, Classification(total))
    /\ UNCHANGED <<famVars, appVars>>

\* Most discontinuities counted along a traverse.
MaxCount == 8

\* Traverse lengths in centimetres: none, negative, and from 1 cm to 30 m.
Lengths == {-100, 0, 1, 5, 15, 40, 100, 250, 500, 1000, 2000, 3000}

\* calculate_rqd_from_frequency applied to a count and a length.
EstimateRqd ==
    /\ tab_fn = ""
    /\ \E count \in 0..MaxCount, length \in Lengths :
          ApplyOnce("calculate_rqd_from_frequency", <<count, length>>,
                    calculate_rqd_from_frequency(count, length))
    /\ UNCHANGED <<famVars, appVars>>

\* Largest code handed to the condition and groundwater tables; the scales
\* of the data end at 5.
MaxCode == 6

\* Codes and means of two codes: 0, 0.5, 1, 1.5, ... MaxCode.
HalfCodes == {Frac(k, 2) : k \in 0..(2 * MaxCode)}

\* Means of five codes that no double holds exactly: 1.8 and 4.2.
FifthCodes == {Frac(9, 5), Frac(21, 5)}

MeanCodes == HalfCodes \cup FifthCodes

\* get_discontinuity_condition_rating applied to four mean codes.
RateConditions ==
    /\ tab_fn = ""
    /\ \E a \in MeanCodes, r \in MeanCodes, w \in MeanCodes, f \in MeanCodes :
          ApplyOnce("get_discontinuity_condition_rating", <<a, r, w, f>>,
                    get_discontinuity_condition_rating(a, r, w, f))
    /\ UNCHANGED <<famVars, appVars>>

\* get_groundwater_rating applied to a whole code, in the scale or not.
RateGroundwater ==
    /\ tab_fn = ""
    /\ \E code \in (-MaxCode)..(MaxCode + 3) :
          ApplyOnce("get_groundwater_rating", code, get_groundwater_rating(code))
    /\ UNCHANGED <<famVars, appVars>>

\* The largest RQD there is, in percent.
MaxRqd == 100

\* RQD values: every half percent, and the last value below each band edge.
RqdValues ==
    {k * (RqdUnit \div 2) : k \in 0..(2 * MaxRqd)}
        \cup {e * RqdUnit - 1 : e \in {25, 50, 75, 90}}

\* get_rqd_rating applied to an RQD.
RateRqd ==
    /\ tab_fn \in {"", "get_rqd_rating"}
    /\ \E rqd \in RqdValues : Apply("get_rqd_rating", rqd, get_rqd_rating(rqd))
    /\ UNCHANGED <<famVars, appVars>>

\* Dip directions in whole degrees.
Degrees == 0..360

\* calculate_angular_distance applied to two dip directions.
MeasureDistance ==
    /\ tab_fn = ""
    /\ \E a \in Degrees, b \in Degrees :
          ApplyOnce("calculate_angular_distance", <<a, b>>,
                    calculate_angular_distance(a, b))
    /\ UNCHANGED <<famVars, appVars>>

\* The rows of one station, at most two of them, and the five of EdgeStation.
SmallStations ==
    (UNION {[1..k -> {row \in RowPool : row.Station = 1}] : k \in 1..2}) \cup {EdgeStation}

\* calculate_station_rmr applied to a data set of one station.
ScoreStation ==
    /\ tab_fn = ""
    /\ \E df \in SmallStations :
          ApplyOnce("calculate_station_rmr", df, calculate_station_rmr(df, 1))
    /\ UNCHANGED <<famVars, appVars>>

TabNext ==
    \/ Classify
    \/ EstimateRqd
    \/ RateConditions
    \/ RateGroundwater
    \/ RateRqd
    \/ MeasureDistance
    \/ ScoreStation

\* --------------------------------------------------------- specifications

vars == <<famVars, appVars, tabVars>>

\* identify_families, called with any arguments; the app is not running.
Init == FamInit /\ AppIdle /\ TabIdle

Next == FamNext

Spec == Init /\ [][Next]_vars

\* The app run on any data set; its calls of identify_families are taken as
\* the function of their arguments.
InitApp == AppInit /\ FamInit /\ TabIdle

NextApp == AppNext

SpecApp == InitApp /\ [][NextApp]_vars

\* Most rows of a data set that holds several families.
MaxFamilyRecords == 6

\* The rows such data sets are made of: two orientations in station 1, one
\* in station 2, and a row without orientation.
FamilyRowPool == {BaseRow, FarRow, OtherRow, BlindRow}

FamilyDataSets == UNION {[1..k -> FamilyRowPool] : k \in 1..MaxFamilyRecords}

\* data = load_default_data() or pd.read_csv(uploaded_file), for these sets
AppInitFamilies ==
    /\ \E df \in FamilyDataSets, persistence \in BOOLEAN :
          data = IF persistence THEN [k \in 1..Len(df) |-> WithPersistence(df[k])]
                 ELSE df
    /\ app_pc = "loaded"
    /\ rmr_results = <<>>
    /\ station_idx = 0
    /\ all_families_results = <<>>
    /\ all_families_rmr = <<>>
    /\ error = ""

\* The app run on a data set large enough for two families.
InitFamilies == AppInitFamilies /\ FamInit /\ TabIdle

SpecFamilies == InitFamilies /\ [][NextApp]_vars

\* The rating tables and bands applied to arguments of their own.
InitTables == TabIdle /\ FamInit /\ AppIdle

NextTables == TabNext

SpecTables == InitTables /\ [][NextTables]_vars

\* ------------------------------------------------------------------ claims

\* The indices of the emitted group g, as a set.
Members(g) == {families[g][p] : p \in 1..Len(families[g])}

\* Every index that some emitted group holds.
Placed == UNION {Members(g) : g \in 1..Len(families)}

\* C1: the groups identify_families returns are pairwise disjoint, and no
\* group holds an index twice: an index occurs at one position of one group.
C1_GroupsDisjoint ==
    pc = "done" =>
        \A a, b \in 1..Len(families) :
            \A p \in 1..Len(families[a]), q \in 1..Len(families[b]) :
                families[a][p] = families[b][q] => (a = b /\ p = q)

\* C1 witness: a call has returned two groups or more.
C1_Witness == pc = "done" /\ Len(families) >= 2

\* C2: every group in the output, at return and at every step before it, has
\* at least min_members indices; a candidate that ended its scan smaller is
\* not in the output.
C2_GroupsQualify ==
    /\ \A g \in 1..Len(families) : Len(families[g]) >= min_members
    /\ (pc = "outer" /\ current_family # <<>> /\ Len(current_family) < min_members)
           => \A g \in 1..Len(families) : families[g] # current_family

\* C2 witness: a call has returned a group although an earlier candidate of
\* the same call was dropped for being too small.
C2_Witness ==
    /\ pc = "done"
    /\ Len(families) >= 1
    /\ \E k \in 0..(n - 1) : visited[k + 1] /\ k \notin Placed /\ k < families[1][1]

\* C7 as stated: any two members of a returned group are within tolerance of
\* each other.
C7_MutuallyClose ==
    pc = "done" =>
        \A g \in 1..Len(families) : \A a, b \in Members(g) :
            calculate_angular_distance(orientations[a + 1], orientations[b + 1]) <= tolerance

\* C7 amended: every member of a returned group other than its seed is close
\* on average to the members that precede it in the group: the sum of its
\* circular distances to them is at most tolerance times their number.
C7_CloseOnAverageToEarlier ==
    pc = "done" =>
        \A g \in 1..Len(families) : \A p \in 2..Len(families[g]) :
            SumSeq([q \in 1..(p - 1) |->
                      calculate_angular_distance(orientations[families[g][q] + 1],
                                                 orientations[families[g][p] + 1])])
                <= tolerance * (p - 1)

\* C7 witness: a returned group holds two members farther apart than the
\* tolerance.
C7_Witness ==
    /\ pc = "done"
    /\ \E g \in 1..Len(families) : \E a, b \in Members(g) :
          calculate_angular_distance(orientations[a + 1], orientations[b + 1]) > tolerance

\* The running call has the arguments of the remembered call.
RepeatsRemembered ==
    /\ prev_result.valid
    /\ <<orientations, tolerance, min_members>> =
          <<prev_result.orientations, prev_result.tolerance, prev_result.min_members>>

\* C8: a call that repeats the arguments of an earlier call returns the same
\* groups, with the same members, in the same order, whether it follows that
\* call directly or a call on another list ran in between.
C8_Deterministic ==
    (pc = "done" /\ RepeatsRemembered) => families = prev_result.families

\* C8 witness: a call, a call on another list, and the first
\* call again have returned, and what the last one returned is not empty.
C8_Witness ==
    /\ pc = "done" /\ RepeatsRemembered /\ prev_result.apart
    /\ Len(families) >= 1

\* ---- scoring claims, over the app's runs (SpecApp) and the tables (SpecTables)

\* The rows of the station scored at position s of rmr_results.
StationDf(s) == StationRows(data, Stations[s])

\* The rows of the family behind row f of all_families_results.
FamilyDf(f) ==
    LET row == all_families_results[f]
    IN  ILoc(DfValid(row.Station), StationFamilies(row.Station)[row.Family[2]])

\* The length the family behind row f of all_families_results was scored with.
FamilyLength(f) == StationLength(all_families_results[f].Station)

\* The sum of a column over the number of rows, cut to a whole number.
CutMean(df, f) == SumSeq(Column(df, f)) \div Len(df)

\* The band a total falls in, 1 (best) to 5, lower edges included.
ClassBand(total) ==
    CASE total[1] >= 81 -> 1
      [] total[1] >= 61 /\ total[1] < 81 -> 2
      [] total[1] >= 41 /\ total[1] < 61 -> 3
      [] total[1] >= 21 /\ total[1] < 41 -> 4
      [] total[1] < 21 -> 5

\* a <= b for two doubles
FloatLE(a, b) == FixSub(b, a)[1] >= 0

ClassLabels ==
    <<"Clase I - Muy buena", "Clase II - Buena", "Clase III - Regular",
      "Clase IV - Mala", "Clase V - Muy mala">>

ClassRank(label) == CHOOSE k \in 1..5 : ClassLabels[k] = label

\* C3 as stated: the groundwater rating of every scored station and of every
\* scored family is the rating of the mean groundwater code of its rows
\* rounded to the nearest whole code.
C3_RatedByRoundedMean ==
    /\ \A s \in 1..Len(rmr_results) :
          rmr_results[s].Ratings.Groundwater =
              get_groundwater_rating(RoundedCode(Mean(StationDf(s), "Groundwater")))
    /\ \A f \in 1..Len(all_families_rmr) :
          all_families_rmr[f].ratings.groundwater =
              get_groundwater_rating(RoundedCode(Mean(FamilyDf(f), "Groundwater")))

\* C3 amended: the groundwater rating of every scored station and of every
\* scored family is the rating of the mean groundwater code of its rows with
\* the fraction cut off (codes 1, 2, 2 are rated as code 1: 15).
C3_RatedByCutMean ==
    /\ \A s \in 1..Len(rmr_results) :
          rmr_results[s].Ratings.Groundwater =
              get_groundwater_rating(CutMean(StationDf(s), "Groundwater"))
    /\ \A f \in 1..Len(all_families_rmr) :
          all_families_rmr[f].ratings.groundwater =
              get_groundwater_rating(CutMean(FamilyDf(f), "Groundwater"))

\* C3 witness: a station and a family of it have been scored whose mean
\* groundwater code rounds up, to a code with another rating.
C3_Witness ==
    /\ rmr_results # <<>>
    /\ \E f \in 1..Len(all_families_rmr) :
          /\ RoundedCode(Mean(FamilyDf(f), "Groundwater")) # CutMean(FamilyDf(f), "Groundwater")
          /\ \E s \in 1..Len(rmr_results) :
                /\ Stations[s] = all_families_results[f].Station
                /\ get_groundwater_rating(RoundedCode(Mean(StationDf(s), "Groundwater")))
                      # rmr_results[s].Ratings.Groundwater

\* C4: every scored family has the RQD, spacing, condition and
\* groundwater ratings and the total that the station scorer's steps give for
\* the family's rows and the length the family was scored with.
C4_FamilyAsStationSteps ==
    \A f \in 1..Len(all_families_rmr) :
        LET st == StationSteps(all_families_results[f].Station, FamilyDf(f), FamilyLength(f))
            fr == all_families_rmr[f]
        IN  /\ fr.ratings.rqd = st.Ratings.RQD
            /\ fr.ratings.spacing = st.Ratings.Spacing
            /\ fr.ratings.conditions = st.Ratings.Conditions
            /\ fr.ratings.groundwater = st.Ratings.Groundwater
            /\ fr.RMR_total = st.RMR_Total

\* C4 witness: a family has been scored, with a length above 0, whose spacing
\* rating is not the one the average of its rows' millimetre values has.
C4_Witness ==
    \E f \in 1..Len(all_families_rmr) :
        /\ all_families_rmr[f].ratings.spacing
              # get_spacing_rating(MeanSpacingReal(FamilyDf(f)))
        /\ FamilyLength(f) > 0

\* C5: every station result and every family result lists the six
\* ratings, the total and a class label.
C5_AllExposeSixPartsAndClass ==
    /\ \A s \in 1..Len(rmr_results) :
          /\ DOMAIN rmr_results[s].Ratings =
                {"Strength", "RQD", "Spacing", "Conditions", "Groundwater", "Orientation"}
          /\ {"RMR_Total", "Classification"} \subseteq DOMAIN rmr_results[s]
    /\ \A f \in 1..Len(all_families_rmr) :
          /\ DOMAIN all_families_rmr[f].ratings =
                {"strength", "rqd", "spacing", "conditions", "groundwater", "orientation"}
          /\ "RMR_total" \in DOMAIN all_families_rmr[f]
          /\ "Classification" \in
                (DOMAIN all_families_rmr[f] \cup DOMAIN all_families_results[f])

\* C5 witness: a run has completed with a scored family whose ratings list no
\* orientation adjustment and whose records carry no class label.
C5_Witness ==
    /\ app_pc = "done"
    /\ rmr_results # <<>>
    /\ \E f \in 1..Len(all_families_rmr) :
          /\ "orientation" \notin DOMAIN all_families_rmr[f].ratings
          /\ "Classification" \notin
                (DOMAIN all_families_rmr[f] \cup DOMAIN all_families_results[f])

\* C6: a run on a data set with exactly the required fields does
\* not end in an error.
C6_RequiredFieldsSuffice ==
    Columns(data) = RequiredFields => app_pc # "error"

\* C6 witness: a run on a data set with exactly the required fields has scored
\* every station and has ended in KeyError 'Persistence_m' at a station that
\* has a family.
C6_Witness ==
    /\ app_pc = "error"
    /\ error = "KeyError: 'Persistence_m'"
    /\ Columns(data) = RequiredFields
    /\ Len(rmr_results) = Len(Stations)
    /\ StationFamilies(Stations[station_idx + 1]) # <<>>

\* A station of three rows, 10 m long, every code 1.
C9_Scenario(df) ==
    /\ Len(df) = 3
    /\ MaxSeq(Column(df, "Distance_m")) = 1000
    /\ \A k \in 1..Len(df) :
          \A f \in {"Spacing_mm", "Aperture_mm", "Roughness", "Weathering",
                    "Infilling_Type", "Groundwater"} : df[k][f] = 1

\* C9: a station of 3 rows whose largest Distance_m is 10 and whose codes
\* are all 1 is scored RQD 20, spacing 5, condition 30, groundwater 15,
\* strength 7, adjustment -5, total 72, Class II.
C9_AllOnesStation ==
    \A s \in 1..Len(rmr_results) :
        C9_Scenario(StationDf(s)) =>
            /\ rmr_results[s].Ratings =
                  [Strength |-> 7, RQD |-> 20, Spacing |-> 5, Conditions |-> FixInt(30),
                   Groundwater |-> 15, Orientation |-> -5]
            /\ rmr_results[s].RMR_Total = FixInt(72)
            /\ rmr_results[s].Classification = "Clase II - Buena"

\* C9 witness: such a station has been scored.
C9_Witness ==
    \E s \in 1..Len(rmr_results) : C9_Scenario(StationDf(s))

\* C10: the class of a total is the one of the band it falls in, lower edges
\* included (81, 61, 41, 21), whole or fractional, down to the last double
\* below an edge; and of two totals the smaller never has the better class.
C10_ClassBands ==
    tab_fn = "Classification" =>
        /\ tab_ret = ClassLabels[ClassBand(tab_arg)]
        /\ (tab_prev.valid /\ FloatLE(tab_prev.arg, tab_arg)) =>
              ClassRank(tab_prev.ret) >= ClassRank(tab_ret)

\* C10 witness: 80.5 has been classed II, after 81 was classed I.
C10_Witness ==
    /\ tab_fn = "Classification"
    /\ tab_arg = FloatDiv(FixInt(161), 2)
    /\ tab_ret = "Clase II - Buena"
    /\ tab_prev.valid
    /\ tab_prev.arg = FixInt(81)
    /\ tab_prev.ret = "Clase I - Muy buena"

\* ---- the rating functions on their own (SpecTables)

\* C11: calculate_rqd_from_frequency returns a value from 0 to 100 percent
\* for every count >= 0 and every length, and exactly 0 when the length is
\* 0 or less; a station whose records are all at distance 0 is scored with
\* RQD 0 and RQD rating 3.
C11_RqdInRangeZeroWithoutLength ==
    /\ tab_fn = "calculate_rqd_from_frequency" =>
          /\ tab_ret >= 0
          /\ tab_ret <= 100 * RqdUnit
          /\ (tab_arg[2] <= 0 => tab_ret = 0)
    /\ (tab_fn = "calculate_station_rmr"
          /\ \A k \in 1..Len(tab_arg) : tab_arg[k].Distance_m = 0) =>
              /\ tab_ret.RQD = 0
              /\ tab_ret.Ratings.RQD = 3
              /\ tab_ret.Total_Length = 0

\* C11 witness: a station of two records at distance 0 has been scored.
C11_Witness ==
    /\ tab_fn = "calculate_station_rmr"
    /\ Len(tab_arg) = 2
    /\ \A k \in 1..Len(tab_arg) : tab_arg[k].Distance_m = 0
    /\ tab_ret.Num_Discontinuities = 2
    /\ tab_ret.RQD = 0

\* C12: get_discontinuity_condition_rating returns a value from 0 to 30 for
\* whole and fractional codes, the scales' worst codes and codes beyond them.
C12_ConditionsClamped ==
    tab_fn = "get_discontinuity_condition_rating" =>
        /\ FloatLE(FixInt(0), tab_ret)
        /\ FloatLE(tab_ret, FixInt(30))

\* C12 witness: codes whose penalties exceed 30 have been rated 0, one of
\* them fractional.
C12_Witness ==
    /\ tab_fn = "get_discontinuity_condition_rating"
    /\ tab_arg = <<FracInt(6), Frac(11, 2), FracInt(6), FracInt(3)>>
    /\ tab_ret = FixInt(0)

\* C13: get_groundwater_rating gives 15, 10, 7, 4, 0 for the codes 1 to 5
\* and 7 for every other code.
C13_GroundwaterDefault ==
    tab_fn = "get_groundwater_rating" =>
        /\ (tab_arg \in 1..5 => tab_ret = <<15, 10, 7, 4, 0>>[tab_arg])
        /\ (tab_arg \notin 1..5 => tab_ret = 7)

\* C13 witness: code 9 has been rated 7.
C13_Witness ==
    /\ tab_fn = "get_groundwater_rating"
    /\ tab_arg = 9
    /\ tab_ret = 7

\* The band of an RQD, the edges 90, 75, 50 and 25 in the higher band.
RqdBandRating(rqd) ==
    CASE rqd >= 90 * RqdUnit -> 20
      [] rqd >= 75 * RqdUnit /\ rqd < 90 * RqdUnit -> 17
      [] rqd >= 50 * RqdUnit /\ rqd < 75 * RqdUnit -> 13
      [] rqd >= 25 * RqdUnit /\ rqd < 50 * RqdUnit -> 8
      [] rqd < 25 * RqdUnit -> 3

\* C15: get_rqd_rating returns 20, 17, 13, 8 or 3, the rating of the band
\* the RQD falls in with the edges 90, 75, 50, 25 in the higher band, and
\* of two RQDs the smaller never has the larger rating.
C15_RqdRatingMonotone ==
    tab_fn = "get_rqd_rating" =>
        /\ tab_ret \in {20, 17, 13, 8, 3}
        /\ tab_ret = RqdBandRating(tab_arg)
        /\ ((tab_prev.valid /\ tab_prev.arg <= tab_arg) => tab_prev.ret <= tab_ret)

\* C15 witness: 90 has been rated 20 after the value just below it was
\* rated 17.
C15_Witness ==
    /\ tab_fn = "get_rqd_rating"
    /\ tab_arg = 90 * RqdUnit
    /\ tab_ret = 20
    /\ tab_prev.valid
    /\ tab_prev.arg = 90 * RqdUnit - 1
    /\ tab_prev.ret = 17

\* C16: the distance from a to b is the distance from b to a, and the
\* distance from a to a is 0, for whole a, b from 0 to 360.
C16_DistanceSymmetric ==
    tab_fn = "calculate_angular_distance" =>
        /\ tab_ret = calculate_angular_distance(tab_arg[2], tab_arg[1])
        /\ (tab_arg[1] = tab_arg[2] => tab_ret = 0)

\* C16 witness: the distance from 356 to 10, across the wrap, is 14.
C16_Witness ==
    /\ tab_fn = "calculate_angular_distance"
    /\ tab_arg = <<356, 10>>
    /\ tab_ret = 14

\* ---- null orientations (SpecApp)

\* The rows of a data frame that have an orientation.
WithOrientation(df) ==
    LET Known(row) == row.Dip_Direction_degrees # NaN IN SelectSeq(df, Known)

\* The rows of all_families_results that belong to a station.
FamilyRowsOf(station) ==
    LET Here(row) == row.Station = station IN SelectSeq(all_families_results, Here)

\* C14: records without an orientation are scored with their station: they
\* count among its discontinuities, in its length and in its mean codes.
\* They are not clustered: the families of a station hold no more members
\* than the station has records with an orientation, and their mean
\* orientation is one of known orientations; a family is scored with the
\* station's length over all records.
C14_NullOrientationScoredNotClustered ==
    /\ \A s \in 1..Len(rmr_results) :
          LET df == StationDf(s)
              r == rmr_results[s]
          IN  /\ r.Num_Discontinuities = Len(df)
              /\ r.Total_Length = MaxSeq(Column(df, "Distance_m"))
              /\ r.RQD = calculate_rqd_from_frequency(Len(df), MaxSeq(Column(df, "Distance_m")))
              /\ r.Spacing_mm =
                    Frac(SumSeq([k \in 1..Len(df) |-> spacing_conversion[df[k].Spacing_mm]]),
                         Len(df))
              /\ r.Ratings.Groundwater = get_groundwater_rating(CutMean(df, "Groundwater"))
    /\ \A f \in 1..Len(all_families_results) :
          LET row == all_families_results[f]
              df == StationRows(data, row.Station)
              here == FamilyRowsOf(row.Station)
          IN  /\ SumSeq([k \in 1..Len(here) |-> here[k].Count]) <= Len(WithOrientation(df))
              /\ row.Dip_Direction_mean.num >= 0
              /\ row.RQD_family =
                    calculate_rqd_from_frequency(row.Count, MaxSeq(Column(df, "Distance_m")))

\* C14 witness: a family has been scored in a station whose farthest record
\* has no orientation, and the station has been scored too.
C14_Witness ==
    \E f \in 1..Len(all_families_results), s \in 1..Len(rmr_results) :
        LET row == all_families_results[f]
            df == StationRows(data, row.Station)
        IN  /\ Stations[s] = row.Station
            /\ rmr_results[s].Num_Discontinuities > Len(WithOrientation(df))
            /\ MaxSeq(Column(df, "Distance_m"))
                  > MaxSeq(Column(WithOrientation(df), "Distance_m"))
            /\ row.Count = Len(WithOrientation(df))

\* ---- the two loops of identify_families (Spec)

\* The indices whose group was dropped: marked, in no family, and not in
\* the group being built.
Discarded ==
    {k \in 0..(n - 1) :
        /\ visited[k + 1]
        /\ k \notin Placed
        /\ pc = "inner" => \A p \in 1..Len(current_family) : current_family[p] # k}

\* A step of a run keeps every mark and every dropped index.
MarksAndDiscardedKept ==
    pc \in {"outer", "inner"} =>
        /\ \A k \in 1..n : visited[k] => visited'[k]
        /\ Discarded \subseteq Discarded'

\* C17: within a run no mark is ever cleared, and an index of a dropped
\* group stays one: it does not become the seed or a member of a later
\* group and does not enter a family.
C17_DiscardedStayVisited ==
    [][MarksAndDiscardedKept]_vars

\* C17 witness: with min_members 3 the group of the indices 0 and 1 has been
\* dropped, and the later group 2, 3 is being built without them.
C17_Witness ==
    /\ pc = "inner"
    /\ min_members = 3
    /\ families = <<>>
    /\ current_family = <<2, 3>>
    /\ visited = <<TRUE, TRUE, TRUE, TRUE>>
    /\ Discarded = {0, 1}

\* The sum of the distances from orientation j to the members of the group
\* being built.
SumToGroup ==
    SumSeq([p \in 1..Len(current_family) |->
               calculate_angular_distance(orientations[current_family[p] + 1],
                                          orientations[j + 1])])

\* The step that examines an unvisited j appends and marks it when the sum
\* is at most tolerance times the group's size, and else changes neither.
JoinsExactlyWhenCloseOnAverage ==
    (pc = "inner" /\ j < n /\ ~visited[j + 1]) =>
        /\ j' = j + 1
        /\ IF SumToGroup <= tolerance * Len(current_family)
           THEN current_family' = Append(current_family, j) /\ visited'[j + 1]
           ELSE current_family' = current_family /\ visited' = visited

\* C18: when the inner loop examines an unvisited index j, j is appended to
\* the group and marked exactly when the mean of its distances to the
\* members the group holds then is at most the tolerance; otherwise group
\* and marks stay as they are.  [10, 12, 200] with tolerance 15 and
\* min_members 2 gives the one family [0, 1].
C18_JoinsOnMeanDistance ==
    /\ [][JoinsExactlyWhenCloseOnAverage]_vars
    /\ []((/\ pc = "done"
           /\ orientations = <<10, 12, 200>>
           /\ tolerance = 15
           /\ min_members = 2) => families = << <<0, 1>> >>)

\* C18 witness: the run on [10, 12, 200] with tolerance 15 and min_members
\* 2 has returned the family [0, 1].
C18_Witness ==
    /\ pc = "done"
    /\ orientations = <<10, 12, 200>>
    /\ tolerance = 15
    /\ min_members = 2
    /\ families = << <<0, 1>> >>

\* ---- the range of a station's total (SpecApp)

\* Every code of every row lies in 1..5.
CodesInScale(df) ==
    \A k \in 1..Len(df) :
        \A f \in {"Spacing_mm", "Aperture_mm", "Roughness", "Weathering",
                  "Infilling_Type", "Groundwater"} : df[k][f] \in 1..5

\* C19: the total of a station whose codes all lie in 1..5 is at least 10
\* and at most 82.
C19_TotalFrom10To82 ==
    \A s \in 1..Len(rmr_results) :
        CodesInScale(StationDf(s)) =>
            /\ FloatLE(FixInt(10), rmr_results[s].RMR_Total)
            /\ FloatLE(rmr_results[s].RMR_Total, FixInt(82))

\* C19 witness: a station with codes in 1..5 has been scored 82, Class I,
\* every part at its best.
C19_Witness ==
    \E s \in 1..Len(rmr_results) :
        /\ CodesInScale(StationDf(s))
        /\ rmr_results[s].RMR_Total = FixInt(82)
        /\ rmr_results[s].Classification = "Clase I - Muy buena"
        /\ rmr_results[s].Ratings.Spacing = 15

\* ---- discovery order and labels (SpecFamilies)

\* C20: the groups identify_families returns for a station are in discovery
\* order: the indices of a group increase strictly, so its first is its
\* smallest, and the first indices of successive groups increase strictly.
\* The rows of an analysed station are labelled F1, F2, ... in that order,
\* from F1 in every station: the row labelled Fm has the size and the mean
\* orientation of the m-th group.
C20_DiscoveryOrderAndLabels ==
    \A s \in 1..Len(Stations) :
        LET fams == StationFamilies(Stations[s])
            known == WithOrientation(StationRows(data, Stations[s]))
            here == FamilyRowsOf(Stations[s])
        IN  /\ \A g \in 1..Len(fams) :
                  \A p \in 1..(Len(fams[g]) - 1) : fams[g][p] < fams[g][p + 1]
            /\ \A g \in 1..(Len(fams) - 1) : fams[g][1] < fams[g + 1][1]
            /\ \A m \in 1..Len(here) : here[m].Family = <<"F", m>>
            /\ (app_pc \in {"tab3", "done"} /\ s <= station_idx) =>
                  /\ Len(here) = Len(fams)
                  /\ \A m \in 1..Len(here) :
                        /\ here[m].Count = Len(fams[m])
                        /\ here[m].Dip_Direction_mean =
                              Frac(SumSeq([p \in 1..Len(fams[m]) |->
                                              known[fams[m][p] + 1].Dip_Direction_degrees]),
                                   Len(fams[m]))

\* C20 witness: a station with two interleaved families has been analysed;
\* its rows are F1, for the group of the index 0, and F2.
C20_Witness ==
    /\ app_pc = "done"
    /\ \E s \in 1..Len(Stations) :
          LET fams == StationFamilies(Stations[s])
              here == FamilyRowsOf(Stations[s])
          IN  /\ Len(fams) = 2
              /\ fams[1][1] = 0
              /\ fams[2][1] < fams[1][Len(fams[1])]
              /\ Len(here) = 2
              /\ here[1].Family = <<"F", 1>>
              /\ here[2].Family = <<"F", 2>>
              /\ here[1].Dip_Direction_mean # here[2].Dip_Direction_mean

=============================================================================
